---- MODULE Spec2Model ----
(***************************************************************************)
(* A model of fix_mhtml_imge.py: the command-line entry point and          *)
(* fix_mhtml_image_references, which splits an MHTML archive on its MIME    *)
(* boundary, gives every image part a new Content-ID, rewrites the <img>    *)
(* references of the HTML part and writes the archive to a new file.        *)
(*                                                                         *)
(* A byte string is a sequence of one-character strings.  The bytes 0xC3,   *)
(* 0xA9 and 0xFF are the atoms "0xC3", "0xA9", "0xFF"; the decoded          *)
(* character U+00E9 is the atom "U+E9".                                     *)
(***************************************************************************)
EXTENDS Integers, Sequences, FiniteSets, TLC

VARIABLES
    pc,                     \* the statement the run is at
    argv,                   \* sys.argv: the script name and its arguments
    fs,                     \* the file system: path -> content, readable, writable
    input_file,             \* the parameter of fix_mhtml_image_references
    output_file,            \* line 52
    content,                \* line 60
    boundary,               \* line 71
    header_part,            \* line 76
    content_parts,          \* line 77
    ref_map,                \* line 81: pairs in insertion order
    html_part_info,         \* line 83: <<>> while empty, else <<the record>>
    modified_content_parts, \* line 85
    new_cids,               \* the new_cid of line 112 of each loop iteration ("" when none)
    html_headers,           \* line 163
    html_body_decoded,      \* lines 167-170
    pos,                    \* re.sub (line 216): the offset the scan has reached
    html_body_modified,     \* re.sub (line 216): the result built so far
    calls,                  \* the calls of fix_img_tag so far: argument, src_value, new_cid, result
    stdout,                 \* the kinds of message printed so far
    exit_status             \* the exit status of the process, -1 while it runs

vars == <<pc, argv, fs, input_file, output_file, content, boundary, header_part,
          content_parts, ref_map, html_part_info, modified_content_parts, new_cids,
          html_headers, html_body_decoded, pos, html_body_modified, calls, stdout,
          exit_status>>

----------------------------------------------------------------------------
(* Byte strings *)

Str(s) == [k \in 1..Len(s) |-> SubSeq(s, k, k)]

Range(s) == {s[k] : k \in 1..Len(s)}

Min(S) == CHOOSE x \in S : \A y \in S : x <= y

Max(S) == CHOOSE x \in S : \A y \in S : x >= y

UpperCase == Str("ABCDEFGHIJKLMNOPQRSTUVWXYZ")

LowerCase == Str("abcdefghijklmnopqrstuvwxyz")

Digits == Range(Str("0123456789"))

Letters == Range(UpperCase) \cup Range(LowerCase)

LowerOf == [c \in Range(UpperCase) |-> LowerCase[CHOOSE k \in 1..26 : UpperCase[k] = c]]

\* bytes.lower, str.lower and re.IGNORECASE on one character
Lower(c) == IF c \in DOMAIN LowerOf THEN LowerOf[c] ELSE c

LowerSeq(s) == [k \in 1..Len(s) |-> Lower(s[k])]

\* bytes.startswith at offset p
StartsAt(s, p, lit) ==
    /\ p >= 1
    /\ p + Len(lit) - 1 <= Len(s)
    /\ \A k \in 1..Len(lit) : s[p + k - 1] = lit[k]

\* a literal of a re.IGNORECASE pattern at offset p (lit is in lower case)
StartsAtI(s, p, lit) ==
    /\ p >= 1
    /\ p + Len(lit) - 1 <= Len(s)
    /\ \A k \in 1..Len(lit) : Lower(s[p + k - 1]) = lit[k]

EndsWith(s, lit) == Len(s) >= Len(lit) /\ StartsAt(s, Len(s) - Len(lit) + 1, lit)

\* bytes.find from offset from: 0 when absent
Find(s, lit, from) ==
    LET hits == {p \in from..Len(s) : StartsAt(s, p, lit)}
    IN  IF hits = {} THEN 0 ELSE Min(hits)

\* the `in` of lines 92 and 139
Contains(s, lit) == \E p \in 1..Len(s) : StartsAt(s, p, lit)

\* the last offset of the longest run from p of characters outside stop (p-1: empty run)
RunEnd(s, p, stop) ==
    LET hits == {q \in p..Len(s) : s[q] \in stop}
    IN  IF hits = {} THEN Len(s) ELSE Min(hits) - 1

\* bytes.split(sep), line 75
RECURSIVE Split(_, _)
Split(s, sep) ==
    LET p == Find(s, sep, 1)
    IN  IF p = 0 THEN <<s>>
        ELSE <<SubSeq(s, 1, p - 1)>> \o Split(SubSeq(s, p + Len(sep), Len(s)), sep)

WhiteSpace == {" ", "\t", "\n", "\r", "\f"}

\* bytes.strip()
Strip(s) ==
    LET keep == {k \in 1..Len(s) : s[k] \notin WhiteSpace}
    IN  IF keep = {} THEN <<>> ELSE SubSeq(s, Min(keep), Max(keep))

HighBytes == {"0xC3", "0xA9", "0xFF"}

\* bytes.decode('utf-8', 'ignore'): 0xC3 0xA9 is U+00E9, a byte that starts no
\* well-formed sequence is dropped
RECURSIVE Decode(_)
Decode(s) ==
    IF s = <<>> THEN <<>>
    ELSE IF Len(s) >= 2 /\ s[1] = "0xC3" /\ s[2] = "0xA9"
         THEN <<"U+E9">> \o Decode(SubSeq(s, 3, Len(s)))
    ELSE IF s[1] \in HighBytes THEN Decode(Tail(s))
    ELSE <<s[1]>> \o Decode(Tail(s))

\* str.encode('utf-8') (and 'ascii' on a string of ASCII characters)
RECURSIVE Encode(_)
Encode(s) ==
    IF s = <<>> THEN <<>>
    ELSE (IF s[1] = "U+E9" THEN <<"0xC3", "0xA9">> ELSE <<s[1]>>) \o Encode(Tail(s))

\* os.path.basename (posixpath): what follows the last "/"
Basename(p) ==
    LET slashes == {k \in 1..Len(p) : p[k] = "/"}
    IN  IF slashes = {} THEN p ELSE SubSeq(p, Max(slashes) + 1, Len(p))

\* os.path.splitext (posixpath): the extension starts at the last "." of the last
\* component, leading dots of the component apart
SplitExt(p) ==
    LET slashes == {k \in 1..Len(p) : p[k] = "/"}
        first   == IF slashes = {} THEN 1 ELSE Max(slashes) + 1
        dots    == {k \in first..Len(p) : p[k] = "."}
        named   == {k \in first..Len(p) : p[k] # "."}
        cut     == IF dots = {} THEN 0 ELSE Max(dots)
    IN  IF cut = 0 \/ named = {} \/ Min(named) > cut
        THEN [base |-> p, ext |-> <<>>]
        ELSE [base |-> SubSeq(p, 1, cut - 1), ext |-> SubSeq(p, cut, Len(p))]

----------------------------------------------------------------------------
(* The regular expressions of the image pass.  A match is a record; NoMatch
   is the None of re.search. *)

NoMatch == [found |-> FALSE]

NewLines == {"\r", "\n"}

\* the pattern  <lit> ?([^\r\n]+)  at offset p, re.IGNORECASE (lit in lower case):
\* the optional space is taken when a character of the line follows it
HeaderLineAt(s, p, lit) ==
    LET q  == p + Len(lit)
        g  == IF q + 1 <= Len(s) /\ s[q] = " " /\ s[q + 1] \notin NewLines THEN q + 1 ELSE q
        e  == RunEnd(s, g, NewLines)
    IN  IF StartsAtI(s, p, lit) /\ q <= Len(s) /\ s[q] \notin NewLines
        THEN [found |-> TRUE, start |-> p, end |-> e, group1 |-> SubSeq(s, g, e)]
        ELSE NoMatch

\* re.search of  <lit> ?([^\r\n]+)  : the leftmost match
HeaderLineSearch(s, lit) ==
    LET hits == {p \in 1..Len(s) : HeaderLineAt(s, p, lit).found}
    IN  IF hits = {} THEN NoMatch ELSE HeaderLineAt(s, Min(hits), lit)

L_content_location == Str("content-location:")

L_content_transfer_encoding == Str("content-transfer-encoding:")

L_content_id == Str("content-id:")

\* line 95: re.search(br"Content-Location: ?([^\r\n]+)", part_bytes, re.IGNORECASE)
loc_match(part_bytes) == HeaderLineSearch(part_bytes, L_content_location)

\* line 141: re.search(br'Content-Transfer-Encoding: ?([^\r\n]+)', part_bytes, re.IGNORECASE)
encoding_match(part_bytes) == HeaderLineSearch(part_bytes, L_content_transfer_encoding)

\* the pattern  Content-ID: ?<([^>]+)>  at offset p, re.IGNORECASE
ContentIdAt(s, p) ==
    LET q == p + Len(L_content_id)
        a == IF q <= Len(s) /\ s[q] = " " THEN q + 1 ELSE q
        e == RunEnd(s, a + 1, {">"})
    IN  IF /\ StartsAtI(s, p, L_content_id)
           /\ a <= Len(s) /\ s[a] = "<"
           /\ e >= a + 1 /\ e < Len(s)
        THEN [found |-> TRUE, start |-> p, end |-> e + 1, group1 |-> SubSeq(s, a + 1, e)]
        ELSE NoMatch

\* line 120: re.search(br"Content-ID: ?<([^>]+)>", modified_part, re.IGNORECASE)
old_cid_match(s) ==
    LET hits == {p \in 1..Len(s) : ContentIdAt(s, p).found}
    IN  IF hits = {} THEN NoMatch ELSE ContentIdAt(s, Min(hits))

\* re.sub(pattern, repl, s, count=1): the leftmost match m replaced by repl
SubFirst(s, m, repl) ==
    IF m.found THEN SubSeq(s, 1, m.start - 1) \o repl \o SubSeq(s, m.end + 1, Len(s)) ELSE s

L_boundary_eq == Str("boundary=\"")

\* line 67: re.search(br'boundary="([^"]+)"', content, re.IGNORECASE)
BoundaryAt(s, p) ==
    LET q == p + Len(L_boundary_eq)
        e == RunEnd(s, q, {"\""})
    IN  IF StartsAtI(s, p, L_boundary_eq) /\ e >= q /\ e < Len(s)
        THEN [found |-> TRUE, start |-> p, end |-> e + 1, group1 |-> SubSeq(s, q, e)]
        ELSE NoMatch

boundary_match(s) ==
    LET hits == {p \in 1..Len(s) : BoundaryAt(s, p).found}
    IN  IF hits = {} THEN NoMatch ELSE BoundaryAt(s, Min(hits))

\* line 161: re.search(b'\r?\n\r?\n', html_part_bytes)
HeaderEndAt(s, p) ==
    LET a == IF p <= Len(s) /\ s[p] = "\r" THEN p + 1 ELSE p
        b == IF a + 1 <= Len(s) /\ s[a + 1] = "\r" THEN a + 2 ELSE a + 1
    IN  IF a <= Len(s) /\ s[a] = "\n" /\ b <= Len(s) /\ s[b] = "\n"
        THEN [found |-> TRUE, start |-> p, end |-> b]
        ELSE NoMatch

header_end_match(s) ==
    LET hits == {p \in 1..Len(s) : HeaderEndAt(s, p).found}
    IN  IF hits = {} THEN NoMatch ELSE HeaderEndAt(s, Min(hits))

----------------------------------------------------------------------------
(* The new Content-ID, lines 100-112 *)

IdChars == Letters \cup Digits \cup {".", "_", "-"}

L_image == Str("image")

L_domain == Str("@mhtml.fixer")

\* line 105: re.sub(r'[^a-zA-Z0-9._-]', '_', filename)
Substitute(filename) == [k \in 1..Len(filename) |-> IF filename[k] \in IdChars THEN filename[k] ELSE "_"]

\* the substitution alone, a leading hyphen left in place
sanitized_filename_unprefixed(filename) == Substitute(filename)

\* lines 105-108
sanitized_filename(filename) ==
    LET s == Substitute(filename)
    IN  IF Len(s) >= 1 /\ s[1] = "-" THEN L_image \o s ELSE s

\* line 100
original_location(part_bytes) == Decode(Strip(loc_match(part_bytes).group1))

\* line 112, hex8 being uuid.uuid4().hex[:8]
new_cid(location, hex8) ==
    sanitized_filename(Basename(location)) \o <<".">> \o hex8 \o L_domain

\* line 122
old_cid(m) == Decode(Strip(m.group1))

\* ref_map: a dict keeps its keys in the order of their first insertion
MapHas(m, k) == \E x \in 1..Len(m) : m[x].key = k

\* dict.get: <<>> stands for None (`not new_cid` takes both the same way)
MapGet(m, k) ==
    IF MapHas(m, k) THEN m[CHOOSE x \in 1..Len(m) : m[x].key = k].val ELSE <<>>

\* an insertion that keeps the value a key already has
MapPut_first(m, k, v) ==
    IF MapHas(m, k) THEN m ELSE Append(m, [key |-> k, val |-> v])

\* ref_map[k] = v
MapPut(m, k, v) ==
    IF MapHas(m, k)
    THEN [x \in 1..Len(m) |-> IF m[x].key = k THEN [key |-> k, val |-> v] ELSE m[x]]
    ELSE Append(m, [key |-> k, val |-> v])

L_cid_header == Str("Content-ID: <")

\* lines 118-134: the part with its Content-ID header replaced or added
modified_part(part_bytes, cid) ==
    LET m == old_cid_match(part_bytes)
        l == loc_match(part_bytes)
    IN  IF m.found
        THEN SubFirst(part_bytes, m, L_cid_header \o Encode(cid) \o <<">">>)
        ELSE SubFirst(part_bytes, l,
                      SubSeq(part_bytes, l.start, l.end) \o <<"\r", "\n">>
                          \o L_cid_header \o Encode(cid) \o <<">">>)

\* the location entered, the old Content-ID left out
ref_map_after_location(m, part_bytes, cid) == MapPut(m, original_location(part_bytes), cid)

\* lines 116-123: the entries one image part adds
ref_map_after(m, part_bytes, cid) ==
    LET withLoc == MapPut(m, original_location(part_bytes), cid)
        o       == old_cid_match(part_bytes)
    IN  IF o.found THEN MapPut(withLoc, old_cid(o), cid) ELSE withLoc

----------------------------------------------------------------------------
(* quopri.decodestring and quopri.encodestring (binascii.a2b_qp and b2a_qp
   with header and quotetabs off) *)

MAXLINESIZE == 76

HexDigits == Digits \cup Range(Str("ABCDEFabcdef"))

\* the bytes the model writes in hexadecimal; any other byte is the atom "0x??"
HexTable ==
    <<[byte |-> "=", hex |-> Str("3D")], [byte |-> "-", hex |-> Str("2D")],
      [byte |-> " ", hex |-> Str("20")], [byte |-> "\t", hex |-> Str("09")],
      [byte |-> ".", hex |-> Str("2E")], [byte |-> "\f", hex |-> Str("0C")],
      [byte |-> "0xC3", hex |-> Str("C3")], [byte |-> "0xA9", hex |-> Str("A9")],
      [byte |-> "0xFF", hex |-> Str("FF")]>>

Upper(c) == IF \E k \in 1..26 : LowerCase[k] = c
            THEN UpperCase[CHOOSE k \in 1..26 : LowerCase[k] = c] ELSE c

ByteOf(h, l) ==
    LET hits == {k \in 1..Len(HexTable) : HexTable[k].hex = <<Upper(h), Upper(l)>>}
    IN  IF hits = {} THEN "0x??" ELSE HexTable[CHOOSE k \in hits : TRUE].byte

HexOf(c) ==
    LET hits == {k \in 1..Len(HexTable) : HexTable[k].byte = c}
    IN  IF hits = {} THEN Str("??") ELSE HexTable[CHOOSE k \in hits : TRUE].hex

\* a2b_qp from offset in, out being the bytes decoded so far
RECURSIVE a2b_qp(_, _, _)
a2b_qp(data, in, out) ==
    IF in > Len(data) THEN out
    ELSE IF data[in] # "=" THEN a2b_qp(data, in + 1, Append(out, data[in]))
    ELSE IF in + 1 > Len(data) THEN out
    ELSE IF data[in + 1] \in NewLines
         THEN \* a soft line break: up to and with the next "\n"
              LET nl == Find(data, <<"\n">>, in + 1)
              IN  IF nl = 0 THEN out ELSE a2b_qp(data, nl + 1, out)
    ELSE IF data[in + 1] = "=" THEN a2b_qp(data, in + 2, Append(out, "="))
    ELSE IF in + 2 <= Len(data) /\ data[in + 1] \in HexDigits /\ data[in + 2] \in HexDigits
         THEN a2b_qp(data, in + 3, Append(out, ByteOf(data[in + 1], data[in + 2])))
    ELSE a2b_qp(data, in + 1, Append(out, "="))

\* line 168
decodestring(data) == a2b_qp(data, 1, <<>>)

\* b2a_qp writes these bytes as =XX
MustQuote(data, in, linelen) ==
    LET c == data[in]
    IN  \/ c \in HighBytes \cup {"0x??"}
        \/ c = "="
        \/ c = "." /\ linelen = 0 /\ (in = Len(data) \/ data[in + 1] \in NewLines)
        \/ c \in {" ", "\t"} /\ in = Len(data)
        \/ c = "\f"

\* b2a_qp from offset in, linelen being the length of the line under way
RECURSIVE b2a_qp(_, _, _, _, _)
b2a_qp(data, crlf, in, linelen, out) ==
    LET eol == IF crlf THEN <<"\r", "\n">> ELSE <<"\n">>
    IN  IF in > Len(data) THEN out
        ELSE IF MustQuote(data, in, linelen)
        THEN IF linelen + 3 >= MAXLINESIZE
             THEN b2a_qp(data, crlf, in + 1, 3, out \o <<"=">> \o eol \o <<"=">> \o HexOf(data[in]))
             ELSE b2a_qp(data, crlf, in + 1, linelen + 3, out \o <<"=">> \o HexOf(data[in]))
        ELSE IF \/ data[in] = "\n"
                \/ in + 1 <= Len(data) /\ data[in] = "\r" /\ data[in + 1] = "\n"
        THEN LET kept == IF out # <<>> /\ out[Len(out)] \in {" ", "\t"}
                         THEN SubSeq(out, 1, Len(out) - 1) \o <<"=">> \o HexOf(out[Len(out)])
                         ELSE out
             IN  b2a_qp(data, crlf, IF data[in] = "\r" THEN in + 2 ELSE in + 1, 0, kept \o eol)
        ELSE IF in # Len(data) /\ data[in + 1] # "\n" /\ linelen + 1 >= MAXLINESIZE
        THEN b2a_qp(data, crlf, in + 1, 1, out \o <<"=">> \o eol \o <<data[in]>>)
        ELSE b2a_qp(data, crlf, in + 1, linelen + 1, Append(out, data[in]))

\* line 225
encodestring(data) ==
    LET nl == Find(data, <<"\n">>, 1)
    IN  b2a_qp(data, nl > 1 /\ data[nl - 1] = "\r", 1, 0, <<>>)

----------------------------------------------------------------------------
(* The markup pass: fix_img_tag, lines 173-213 *)

L_src == Str("src")

L_cid == Str("cid:")

L_img == Str("<img")

L_selfclose == Str("/>")

Quotes == {"\"", "'"}

ValueStop == {"\"", "'", " ", ">"}

RegexSpace == {" ", "\t", "\n", "\r", "\f"}

\* (["\']?)([^"\' >]+)\1 from offset v
SrcValueAt(s, v) ==
    LET q == IF v <= Len(s) /\ s[v] \in Quotes THEN s[v] ELSE ""
        g == IF q = "" THEN v ELSE v + 1
        e == RunEnd(s, g, ValueStop)
    IN  IF e >= g /\ g <= Len(s) /\ (q = "" \/ (e < Len(s) /\ s[e + 1] = q))
        THEN [found |-> TRUE, quote |-> q, group2 |-> SubSeq(s, g, e),
              end |-> IF q = "" THEN e ELSE e + 1, gstart |-> g, gend |-> e]
        ELSE NoMatch

\* src\s*=\s*(["\']?)([^"\' >]+)\1 at offset p, re.IGNORECASE: the second \s* gives
\* back white space until the rest matches
SrcAt(s, p) ==
    LET eq    == RunEnd(s, p + 3, {c \in Range(s) : c \notin RegexSpace}) + 1
        w     == RunEnd(s, eq + 1, {c \in Range(s) : c \notin RegexSpace})
        takes == {j \in eq..w : SrcValueAt(s, j + 1).found}
    IN  IF StartsAtI(s, p, L_src) /\ eq <= Len(s) /\ s[eq] = "=" /\ takes # {}
        THEN LET m == SrcValueAt(s, Max(takes) + 1)
             IN  [found |-> TRUE, start |-> p, end |-> m.end, quote |-> m.quote,
                  group2 |-> m.group2, gstart |-> m.gstart, gend |-> m.gend]
        ELSE NoMatch

\* line 177: re.search(br'src\s*=\s*(["\']?)([^"\' >]+)\1', img_tag_bytes, re.IGNORECASE)
src_match(img_tag_bytes) ==
    LET hits == {p \in 1..Len(img_tag_bytes) : SrcAt(img_tag_bytes, p).found}
    IN  IF hits = {} THEN NoMatch ELSE SrcAt(img_tag_bytes, Min(hits))

\* line 184
src_value(img_tag_bytes) == Decode(src_match(img_tag_bytes).group2)

\* line 187
key_to_check(value) ==
    IF StartsAtI(value, 1, L_cid) THEN SubSeq(value, 5, Len(value)) ELSE value

\* lines 188-196: the new Content-ID of a reference, <<>> when there is none
lookup(m, value) ==
    LET key    == key_to_check(value)
        direct == MapGet(m, key)
        same   == {x \in 1..Len(m) : Basename(m[x].key) = Basename(key)}
    IN  IF direct # <<>> THEN direct
        ELSE IF same # {} THEN m[Min(same)].val
        ELSE <<>>

\* lines 180-182 and 208-213
self_closed(tag, fallback) ==
    IF EndsWith(tag, L_selfclose) THEN tag
    ELSE IF EndsWith(tag, <<">">>) THEN SubSeq(tag, 1, Len(tag) - 1) \o L_selfclose
    ELSE fallback

\* the attribute written with single quotes
new_src_attr_single(cid) == Encode(Str("src='cid:") \o cid \o <<"'">>)

\* line 201
new_src_attr(cid) == Encode(Str("src=\"cid:") \o cid \o <<"\"">>)

\* lines 173-213
fix_img_tag(img_tag_bytes, m) ==
    LET sm == src_match(img_tag_bytes)
    IN  IF ~sm.found THEN self_closed(img_tag_bytes, img_tag_bytes)
        ELSE LET cid          == lookup(m, src_value(img_tag_bytes))
                 modified_tag == IF cid # <<>>
                                 THEN SubFirst(img_tag_bytes, sm, new_src_attr(cid))
                                 ELSE img_tag_bytes
             IN  self_closed(modified_tag, modified_tag \o L_selfclose)

\* the pattern <img[^>]+> at offset p, re.IGNORECASE
ImgTagAt(s, p) ==
    LET e == RunEnd(s, p + 4, {">"})
    IN  IF StartsAtI(s, p, L_img) /\ e >= p + 4 /\ e < Len(s)
        THEN [found |-> TRUE, start |-> p, end |-> e + 1]
        ELSE NoMatch

\* line 216: the next match of br'<img[^>]+>' at or after offset from
next_img_tag(s, from) ==
    LET hits == {p \in from..Len(s) : ImgTagAt(s, p).found}
    IN  IF hits = {} THEN NoMatch ELSE ImgTagAt(s, Min(hits))

----------------------------------------------------------------------------
(* The inputs: argument vectors, files and archives *)

MaxParts == 2

MaxTags == 1

CRLF == <<"\r", "\n">>

SeqsUpTo(S, n) == UNION {[1..k -> S] : k \in 0..n}

RECURSIVE Flatten(_)
Flatten(ss) == IF ss = <<>> THEN <<>> ELSE ss[1] \o Flatten(Tail(ss))

TopHeader(token) ==
    Str("Content-Type: multipart/related; boundary=\"") \o token \o <<"\"">> \o CRLF \o CRLF

Archive(token, parts, closing) ==
    TopHeader(token)
        \o Flatten([k \in 1..Len(parts) |-> Str("--") \o token \o parts[k]])
        \o closing

Closing(token) == Str("--") \o token \o Str("--") \o CRLF

IdHeader(value) == Str("Content-ID: ") \o value \o CRLF

LocHeader(location) == Str("Content-Location: ") \o location \o CRLF

ImagePart(ids, loc) ==
    CRLF \o Str("Content-Type: image/png") \o CRLF \o ids \o loc \o CRLF \o Str("DATA") \o CRLF

HtmlPart(enc, body) ==
    CRLF \o Str("Content-Type: text/html") \o CRLF \o enc \o CRLF \o body \o CRLF

QP == Str("Content-Transfer-Encoding: quoted-printable") \o CRLF

ImageParts ==
    { ImagePart(<<>>, LocHeader(Str("a.png"))),
      ImagePart(IdHeader(Str("<x>")), LocHeader(Str("a.png"))),
      ImagePart(IdHeader(Str("<x>")), LocHeader(Str("d/a.png"))),
      ImagePart(IdHeader(Str("x")), LocHeader(Str("b.png"))),
      ImagePart(IdHeader(Str("<x>")) \o IdHeader(Str("<y>")), LocHeader(Str("b.png"))),
      ImagePart(IdHeader(Str("<y>")), <<>>) }

HtmlParts ==
    { HtmlPart(<<>>, Str("<img src=\"a.png\"><img src='cid:x'><img src=e/a.png>")),
      HtmlPart(QP, Str("<p>=2D=2DB</p><img src=3D\"cid:y\" =\r\nalt=3Da>")) }

OtherParts ==
    { CRLF \o Str("Content-Type: text/css") \o CRLF \o CRLF \o Str("p{}") \o CRLF,
      CRLF \o Str("Content-Type: text/html") \o CRLF }

PartPool == ImageParts \cup HtmlParts \cup OtherParts

\* archives of up to MaxParts parts
PartArchives == {Archive(Str("B"), ps, Closing(Str("B"))) : ps \in SeqsUpTo(PartPool, MaxParts)}

Locations ==
    { Str("-bad?name.png"), Str("x/-bad?name.png"), Str("dir/"), Str("-"), Str("A_b-9.PNG"),
      <<"0xC3", "0xA9", "0xFF">> \o Str(".png"), Str("a b.png"), Str(" ") }

\* archives of one image part and a page that refers to it
LocationArchives ==
    { Archive(Str("B"),
              <<ImagePart(<<>>, LocHeader(l)),
                HtmlPart(<<>>, Str("<img src=\"") \o l \o Str("\">"))>>,
              Closing(Str("B"))) : l \in Locations }

TagPool ==
    { Str("<img>"),
      Str("<img src=\"a.png\">"),
      Str("<img alt='A' src='a.png'/>"),
      Str("<IMG SRC = a.png>"),
      Str("<img alt=\"x>y\" src=\"a.png\">"),
      Str("<img src=\"CID:x\" />"),
      Str("<img src=\"missing.png\">"),
      Str("<img alt=\"q\">"),
      Str("<img data-src=\"a.png\" src=\"missing.png\">"),
      Str("<img src=\"e/a.png\">"),
      Str("<img src=cid:x/>") }

\* archives of two image parts and a page of up to MaxTags image tags
TagArchives ==
    { Archive(Str("B"),
              <<ImagePart(IdHeader(Str("<x>")), LocHeader(Str("a.png"))),
                ImagePart(IdHeader(Str("<x>")), LocHeader(Str("d/a.png"))),
                HtmlPart(<<>>, Str("<p>") \o Flatten(tags) \o Str("</p>"))>>,
              Closing(Str("B"))) : tags \in SeqsUpTo(TagPool, MaxTags) }

LfPart == <<"\n">> \o Str("Content-Type: text/html") \o <<"\n", "\n">> \o Str("<img src=a.png>") \o <<"\n">>

\* archives off the usual form: no boundary parameter, no closing delimiter, bare
\* line feeds, a boundary that is not UTF-8
OddArchives ==
    { Str("Content-Type: multipart/related") \o CRLF \o CRLF \o Str("--B") \o LfPart \o Closing(Str("B")),
      Archive(Str("B"), <<LfPart>>, Closing(Str("B"))),
      Archive(Str("B"), <<LfPart, LfPart>>, <<>>),
      Archive(Str("B"), <<>>, <<>>),
      Archive(<<"0xFF">>, <<LfPart>>, Closing(<<"0xFF">>)),
      Archive(Str("/>"), <<CRLF \o Str("Content-Type: text/html") \o CRLF \o CRLF
                             \o Str("<img alt=-->") \o CRLF>>, Closing(Str("/>"))) }

Archives == PartArchives \cup LocationArchives \cup TagArchives \cup OddArchives

Script == Str("fix_mhtml_imge.py")

InputPaths == {Str("t.mhtml"), Str("d.x/t"), Str(".t")}

\* a file: what os.path.exists, open(.., "rb") and open(.., "wb") meet
File(exists, readable, writable, data) ==
    [exists |-> exists, readable |-> readable, writable |-> writable, data |-> data]

NoFile(writable) == File(FALSE, FALSE, writable, <<>>)

\* lines 51-52
output_name(path) ==
    LET parts == SplitExt(path)
    IN  parts.base \o Str("_fixed") \o parts.ext

Paths == InputPaths \cup {output_name(p) : p \in InputPaths}

Disk(path, file, writable) ==
    [p \in Paths |-> IF p = path THEN file ELSE NoFile(writable)]

SmallArchive ==
    Archive(Str("B"),
            <<ImagePart(<<>>, LocHeader(Str("a.png"))),
              HtmlPart(<<>>, Str("<img src=\"a.png\"><img src=\"missing.png\">"))>>,
            Closing(Str("B")))

\* a run: the argument vector and the disk it starts on
Scenarios ==
    {[argv |-> <<Script, Str("t.mhtml")>>,
      fs   |-> Disk(Str("t.mhtml"), File(TRUE, TRUE, "yes", a), "yes")] : a \in Archives}
    \cup
    {[argv |-> <<Script, p>>, fs |-> Disk(p, f, w)] :
        p \in InputPaths,
        f \in {NoFile("yes"), File(TRUE, FALSE, "yes", SmallArchive),
               File(TRUE, TRUE, "yes", SmallArchive)},
        w \in {"yes", "no", "full"}}
    \cup
    {[argv |-> a, fs |-> Disk(Str("t.mhtml"), File(TRUE, TRUE, "yes", SmallArchive), "yes")] :
        a \in {<<Script>>, <<Script, Str("t.mhtml"), Str("t.mhtml")>>}}

\* uuid.uuid4().hex[:8]
HexPool == {Str("0a1b2c3d"), Str("ffffffff")}

----------------------------------------------------------------------------
(* The run *)

Init ==
    \E sc \in Scenarios :
        /\ pc = "main"
        /\ argv = sc.argv
        /\ fs = sc.fs
        /\ input_file = <<>>
        /\ output_file = <<>>
        /\ content = <<>>
        /\ boundary = <<>>
        /\ header_part = <<>>
        /\ content_parts = <<>>
        /\ ref_map = <<>>
        /\ html_part_info = <<>>
        /\ modified_content_parts = <<>>
        /\ new_cids = <<>>
        /\ html_headers = <<>>
        /\ html_body_decoded = <<>>
        /\ pos = 0
        /\ html_body_modified = <<>>
        /\ calls = <<>>
        /\ stdout = <<>>
        /\ exit_status = -1

\* the process ends: print(message), then the status
Exit(message, status) ==
    /\ pc' = "exit"
    /\ stdout' = Append(stdout, message)
    /\ exit_status' = status

\* an uncaught exception: the traceback goes to stderr, the status is 1
Raise ==
    /\ pc' = "exit"
    /\ exit_status' = 1
    /\ UNCHANGED stdout

\* lines 253-255
MainUsage ==
    /\ pc = "main"
    /\ Len(argv) # 2
    /\ Exit("usage", 1)
    /\ UNCHANGED <<argv, fs, input_file, output_file, content, boundary, header_part,
                   content_parts, ref_map, html_part_info, modified_content_parts, new_cids,
                   html_headers, html_body_decoded, pos, html_body_modified, calls>>

\* line 258
MainCall ==
    /\ pc = "main"
    /\ Len(argv) = 2
    /\ input_file' = argv[2]
    /\ pc' = "exists"
    /\ UNCHANGED <<argv, fs, output_file, content, boundary, header_part, content_parts,
                   ref_map, html_part_info, modified_content_parts, new_cids, html_headers,
                   html_body_decoded, pos, html_body_modified, calls, stdout, exit_status>>

\* lines 46-48: the function returns and the script ends
FileNotFound ==
    /\ pc = "exists"
    /\ ~fs[input_file].exists
    /\ Exit("error: not found", 0)
    /\ UNCHANGED <<argv, fs, input_file, output_file, content, boundary, header_part,
                   content_parts, ref_map, html_part_info, modified_content_parts, new_cids,
                   html_headers, html_body_decoded, pos, html_body_modified, calls>>

\* the output file opened for writing as soon as its name is known
FileFound_opens ==
    /\ pc = "exists"
    /\ fs[input_file].exists
    /\ output_file' = output_name(input_file)
    /\ fs' = [fs EXCEPT ![output_name(input_file)] = File(TRUE, TRUE, @.writable, <<>>)]
    /\ pc' = "read"
    /\ UNCHANGED <<argv, input_file, content, boundary, header_part, content_parts,
                   ref_map, html_part_info, modified_content_parts, new_cids, html_headers,
                   html_body_decoded, pos, html_body_modified, calls, stdout, exit_status>>

\* lines 46-55
FileFound ==
    /\ pc = "exists"
    /\ fs[input_file].exists
    /\ output_file' = output_name(input_file)
    /\ pc' = "read"
    /\ UNCHANGED <<argv, fs, input_file, content, boundary, header_part, content_parts,
                   ref_map, html_part_info, modified_content_parts, new_cids, html_headers,
                   html_body_decoded, pos, html_body_modified, calls, stdout, exit_status>>

\* lines 61-63
ReadError ==
    /\ pc = "read"
    /\ ~fs[input_file].readable
    /\ Exit("error: read", 0)
    /\ UNCHANGED <<argv, fs, input_file, output_file, content, boundary, header_part,
                   content_parts, ref_map, html_part_info, modified_content_parts, new_cids,
                   html_headers, html_body_decoded, pos, html_body_modified, calls>>

\* lines 58-60
ReadFile ==
    /\ pc = "read"
    /\ fs[input_file].readable
    /\ content' = fs[input_file].data
    /\ pc' = "boundary"
    /\ UNCHANGED <<argv, fs, input_file, output_file, boundary, header_part, content_parts,
                   ref_map, html_part_info, modified_content_parts, new_cids, html_headers,
                   html_body_decoded, pos, html_body_modified, calls, stdout, exit_status>>

\* lines 67-70
BoundaryMissing ==
    /\ pc = "boundary"
    /\ ~boundary_match(content).found
    /\ Exit("error: boundary", 0)
    /\ UNCHANGED <<argv, fs, input_file, output_file, content, boundary, header_part,
                   content_parts, ref_map, html_part_info, modified_content_parts, new_cids,
                   html_headers, html_body_decoded, pos, html_body_modified, calls>>

\* line 71
delimiter(data) == Str("--") \o boundary_match(data).group1

\* line 72: boundary.decode() raises UnicodeDecodeError
BoundaryUndecodable ==
    /\ pc = "boundary"
    /\ boundary_match(content).found
    /\ Encode(Decode(delimiter(content))) # delimiter(content)
    /\ Raise
    /\ UNCHANGED <<argv, fs, input_file, output_file, content, boundary, header_part,
                   content_parts, ref_map, html_part_info, modified_content_parts, new_cids,
                   html_headers, html_body_decoded, pos, html_body_modified, calls>>

\* lines 75-77: parts[1:-1]
middle(parts) == SubSeq(parts, 2, Len(parts) - 1)

\* lines 71-85
SplitParts ==
    /\ pc = "boundary"
    /\ boundary_match(content).found
    /\ Encode(Decode(delimiter(content))) = delimiter(content)
    /\ boundary' = delimiter(content)
    /\ header_part' = Split(content, delimiter(content))[1]
    /\ content_parts' = middle(Split(content, delimiter(content)))
    /\ ref_map' = <<>>
    /\ html_part_info' = <<>>
    /\ modified_content_parts' = <<>>
    /\ pc' = "pass1"
    /\ UNCHANGED <<argv, fs, input_file, output_file, content, new_cids, html_headers,
                   html_body_decoded, pos, html_body_modified, calls, stdout, exit_status>>

L_type_image == Str("Content-Type: image")

L_type_html == Str("Content-Type: text/html")

\* line 92
is_image(part_bytes) == Contains(part_bytes, L_type_image)

\* line 139
is_html(part_bytes) == ~is_image(part_bytes) /\ Contains(part_bytes, L_type_html)

\* line 90: the part of the iteration under way
InLoop == pc = "pass1" /\ Len(new_cids) < Len(content_parts)

part_bytes == content_parts[Len(new_cids) + 1]

\* lines 96-98
ImageWithoutLocation ==
    /\ InLoop
    /\ is_image(part_bytes)
    /\ ~loc_match(part_bytes).found
    /\ modified_content_parts' = Append(modified_content_parts, part_bytes)
    /\ new_cids' = Append(new_cids, <<>>)
    /\ UNCHANGED <<pc, argv, fs, input_file, output_file, content, boundary, header_part,
                   content_parts, ref_map, html_part_info, html_headers, html_body_decoded,
                   pos, html_body_modified, calls, stdout, exit_status>>

\* lines 100-136
ImageWithLocation ==
    /\ InLoop
    /\ is_image(part_bytes)
    /\ loc_match(part_bytes).found
    /\ \E hex8 \in HexPool :
          LET cid == new_cid(original_location(part_bytes), hex8)
          IN  /\ ref_map' = ref_map_after(ref_map, part_bytes, cid)
              /\ modified_content_parts' =
                     Append(modified_content_parts, modified_part(part_bytes, cid))
              /\ new_cids' = Append(new_cids, cid)
    /\ UNCHANGED <<pc, argv, fs, input_file, output_file, content, boundary, header_part,
                   content_parts, html_part_info, html_headers, html_body_decoded, pos,
                   html_body_modified, calls, stdout, exit_status>>

L_7bit == Str("7bit")

\* line 142
encoding_of(bytes) ==
    LET m == encoding_match(bytes)
    IN  IF m.found THEN LowerSeq(Strip(m.group1)) ELSE L_7bit

\* line 144
html_info(index, bytes) == [index |-> index, encoding |-> encoding_of(bytes), bytes |-> bytes]

\* lines 139-145
HtmlPartSeen ==
    /\ InLoop
    /\ is_html(part_bytes)
    /\ html_part_info' = <<html_info(Len(modified_content_parts) + 1, part_bytes)>>
    /\ modified_content_parts' = Append(modified_content_parts, part_bytes)
    /\ new_cids' = Append(new_cids, <<>>)
    /\ UNCHANGED <<pc, argv, fs, input_file, output_file, content, boundary, header_part,
                   content_parts, ref_map, html_headers, html_body_decoded, pos,
                   html_body_modified, calls, stdout, exit_status>>

\* lines 148-149
OtherPart ==
    /\ InLoop
    /\ ~is_image(part_bytes)
    /\ ~is_html(part_bytes)
    /\ modified_content_parts' = Append(modified_content_parts, part_bytes)
    /\ new_cids' = Append(new_cids, <<>>)
    /\ UNCHANGED <<pc, argv, fs, input_file, output_file, content, boundary, header_part,
                   content_parts, ref_map, html_part_info, html_headers, html_body_decoded,
                   pos, html_body_modified, calls, stdout, exit_status>>

LoopDone == pc = "pass1" /\ Len(new_cids) = Len(content_parts)

\* lines 153-155
HtmlPartMissing ==
    /\ LoopDone
    /\ html_part_info = <<>>
    /\ Exit("error: no html part", 0)
    /\ UNCHANGED <<argv, fs, input_file, output_file, content, boundary, header_part,
                   content_parts, ref_map, html_part_info, modified_content_parts, new_cids,
                   html_headers, html_body_decoded, pos, html_body_modified, calls>>

\* lines 161-162: header_end_match is None, .end() raises AttributeError
HeaderEndMissing ==
    /\ LoopDone
    /\ html_part_info # <<>>
    /\ ~header_end_match(html_part_info[1].bytes).found
    /\ Raise
    /\ UNCHANGED <<argv, fs, input_file, output_file, content, boundary, header_part,
                   content_parts, ref_map, html_part_info, modified_content_parts, new_cids,
                   html_headers, html_body_decoded, pos, html_body_modified, calls>>

L_quoted_printable == Str("quoted-printable")

\* lines 167-170
decoded(encoding, body) ==
    IF encoding = L_quoted_printable THEN decodestring(body) ELSE body

\* lines 224-227
final_html_body(encoding, body) ==
    IF encoding = L_quoted_printable THEN encodestring(body) ELSE body

\* lines 158-170
DecodeHtml ==
    /\ LoopDone
    /\ html_part_info # <<>>
    /\ header_end_match(html_part_info[1].bytes).found
    /\ LET info == html_part_info[1]
           header_end_pos == header_end_match(info.bytes).end
       IN  /\ html_headers' = SubSeq(info.bytes, 1, header_end_pos)
           /\ html_body_decoded' =
                  decoded(info.encoding, SubSeq(info.bytes, header_end_pos + 1, Len(info.bytes)))
    /\ pos' = 1
    /\ html_body_modified' = <<>>
    /\ pc' = "pass2"
    /\ UNCHANGED <<argv, fs, input_file, output_file, content, boundary, header_part,
                   content_parts, ref_map, html_part_info, modified_content_parts, new_cids,
                   calls, stdout, exit_status>>

\* lines 203 and 205: what fix_img_tag prints
tag_message(tag, m) ==
    IF ~src_match(tag).found THEN <<>>
    ELSE IF lookup(m, src_value(tag)) # <<>> THEN <<"updated">>
    ELSE <<"warning">>

\* what one call of fix_img_tag took and gave
call_record(tag, m) ==
    [tag    |-> tag,
     found  |-> src_match(tag).found,
     src    |-> IF src_match(tag).found THEN src_value(tag) ELSE <<>>,
     cid    |-> IF src_match(tag).found THEN lookup(m, src_value(tag)) ELSE <<>>,
     result |-> fix_img_tag(tag, m)]

\* line 216: re.sub meets the next <img ...> and calls fix_img_tag on it
FixNextTag ==
    /\ pc = "pass2"
    /\ next_img_tag(html_body_decoded, pos).found
    /\ LET m   == next_img_tag(html_body_decoded, pos)
           tag == SubSeq(html_body_decoded, m.start, m.end)
       IN  /\ html_body_modified' =
                  html_body_modified \o SubSeq(html_body_decoded, pos, m.start - 1)
                      \o fix_img_tag(tag, ref_map)
           /\ pos' = m.end + 1
           /\ calls' = Append(calls, call_record(tag, ref_map))
           /\ stdout' = stdout \o tag_message(tag, ref_map)
    /\ UNCHANGED <<pc, argv, fs, input_file, output_file, content, boundary, header_part,
                   content_parts, ref_map, html_part_info, modified_content_parts, new_cids,
                   html_headers, html_body_decoded, exit_status>>

\* line 230
with_html(parts, index, bytes) == [parts EXCEPT ![index] = bytes]

\* lines 216-230: re.sub copies the rest of the body; the part is put back
EncodeHtml ==
    /\ pc = "pass2"
    /\ ~next_img_tag(html_body_decoded, pos).found
    /\ LET body == html_body_modified \o SubSeq(html_body_decoded, pos, Len(html_body_decoded))
       IN  /\ html_body_modified' = body
           /\ modified_content_parts' =
                  with_html(modified_content_parts, html_part_info[1].index,
                            html_headers \o final_html_body(html_part_info[1].encoding, body))
    /\ pos' = Len(html_body_decoded) + 1
    /\ pc' = "write"
    /\ UNCHANGED <<argv, fs, input_file, output_file, content, boundary, header_part,
                   content_parts, ref_map, html_part_info, new_cids, html_headers,
                   html_body_decoded, calls, stdout, exit_status>>

\* lines 239-242: one part as it is written
written_part(delim, part) ==
    delim \o (IF StartsAt(part, 1, CRLF) THEN <<>> ELSE CRLF) \o part

\* lines 237-245: everything the run writes
written(header, delim, parts) ==
    header \o Flatten([k \in 1..Len(parts) |-> written_part(delim, parts[k])])
           \o delim \o Str("--") \o CRLF

\* lines 234-246
WriteOutput ==
    /\ pc = "write"
    /\ fs[output_file].writable = "yes"
    /\ fs' = [fs EXCEPT ![output_file] =
                 File(TRUE, TRUE, "yes", written(header_part, boundary, modified_content_parts))]
    /\ Exit("done", 0)
    /\ UNCHANGED <<argv, input_file, output_file, content, boundary, header_part,
                   content_parts, ref_map, html_part_info, modified_content_parts, new_cids,
                   html_headers, html_body_decoded, pos, html_body_modified, calls>>

\* lines 235 and 247-248: open raises IOError, nothing is created
OpenError ==
    /\ pc = "write"
    /\ fs[output_file].writable = "no"
    /\ Exit("error: write", 0)
    /\ UNCHANGED <<argv, fs, input_file, output_file, content, boundary, header_part,
                   content_parts, ref_map, html_part_info, modified_content_parts, new_cids,
                   html_headers, html_body_decoded, pos, html_body_modified, calls>>

\* lines 237-248: a write raises IOError, the file holds what was written before it
WriteError ==
    /\ pc = "write"
    /\ fs[output_file].writable = "full"
    /\ \E n \in {0, Len(header_part)} :
          fs' = [fs EXCEPT ![output_file] =
                    File(TRUE, TRUE, "full",
                         SubSeq(written(header_part, boundary, modified_content_parts), 1, n))]
    /\ Exit("error: write", 0)
    /\ UNCHANGED <<argv, input_file, output_file, content, boundary, header_part,
                   content_parts, ref_map, html_part_info, modified_content_parts, new_cids,
                   html_headers, html_body_decoded, pos, html_body_modified, calls>>

Next ==
    \/ MainUsage
    \/ MainCall
    \/ FileNotFound
    \/ FileFound
    \/ ReadError
    \/ ReadFile
    \/ BoundaryMissing
    \/ BoundaryUndecodable
    \/ SplitParts
    \/ ImageWithoutLocation
    \/ ImageWithLocation
    \/ HtmlPartSeen
    \/ OtherPart
    \/ HtmlPartMissing
    \/ HeaderEndMissing
    \/ DecodeHtml
    \/ FixNextTag
    \/ EncodeHtml
    \/ WriteOutput
    \/ OpenError
    \/ WriteError

Spec == Init /\ [][Next]_vars

----------------------------------------------------------------------------
(* The vocabulary of the claims *)

Last(s) == s[Len(s)]

\* the run has ended with this message
EndedWith(message) == pc = "exit" /\ stdout # <<>> /\ Last(stdout) = message

FatalMessages == {"error: not found", "error: read", "error: boundary", "error: no html part"}

\* part k is an image part with a Content-Location header
Located(k) == is_image(content_parts[k]) /\ loc_match(content_parts[k]).found

LocationOf(k) == original_location(content_parts[k])

\* part k carries a Content-ID in angle brackets; its prior identifier is the first one
HasPrior(k) == old_cid_match(content_parts[k]).found

PriorOf(k) == old_cid(old_cid_match(content_parts[k]))

\* the references by which part k is known, in the order the image pass enters them
Contributes(k) ==
    IF ~Located(k) THEN <<>>
    ELSE IF HasPrior(k) THEN <<LocationOf(k), PriorOf(k)>>
    ELSE <<LocationOf(k)>>

\* the references of each part the image pass has gone through
Known == [k \in 1..Len(new_cids) |-> Contributes(k)]

\* the parts that are known by the reference key (known: Known)
Writers(known, key) == {k \in 1..Len(known) : key \in Range(known[k])}

\* the references in the order they are met
AllKeys(known) == Flatten(known)

\* a reference with a leading "cid:" (in any case) taken off
ClaimKey(src) == IF StartsAtI(src, 1, Str("cid:")) THEN SubSeq(src, 5, Len(src)) ELSE src

\* the src value of a tag as the page now holds it
RewrittenSrc(tag) == Decode(src_match(tag).group2)

\* part k holds the header Content-ID: <cid>
HeaderCarries(k, cid) ==
    Contains(modified_content_parts[k], Str("Content-ID: <") \o cid \o <<">">>)

\* the offsets at which a Content-ID header line of a part starts
IdHeaderLines(part) ==
    {p \in 1..Len(part) : StartsAtI(part, p, Str("content-id:")) /\ (p = 1 \/ part[p - 1] = "\n")}

\* the markup pass is over
MarkupDone == pc \in {"write", "exit"} /\ html_part_info # <<>> /\ pos = Len(html_body_decoded) + 1

\* the image tags of a page: "<img" as a tag name, up to the next ">"
TagStarts(body) ==
    {p \in 1..Len(body) :
        /\ StartsAtI(body, p, Str("<img"))
        /\ p + 4 <= Len(body)
        /\ body[p + 4] \in WhiteSpace \cup {"/", ">"}
        /\ RunEnd(body, p + 4, {">"}) < Len(body)}

TagEnd(body, p) == RunEnd(body, p + 4, {">"}) + 1

\* a tag with its ending made "/>"
Closed(tag) ==
    IF EndsWith(tag, Str("/>")) THEN tag ELSE SubSeq(tag, 1, Len(tag) - 1) \o Str("/>")

----------------------------------------------------------------------------
(* C1: after the markup pass every image tag of the rewritten page, with
   or without a src attribute, resolved or not, a bare <img> included, ends
   with "/>". *)
C1_EveryTagSelfClosed ==
    MarkupDone =>
        \A p \in TagStarts(html_body_modified) :
            LET e == TagEnd(html_body_modified, p)
            IN  html_body_modified[e - 1] = "/"

(* C2 as claimed: a tag whose src (a leading "cid:" apart) is the location or
   the prior identifier of an image part, or failing any such part has the
   file name of a reference of a part, is rewritten to "cid:" and the new
   identifier written in that part's own Content-ID header, whichever part
   that is, also when two parts share the location or the file name. *)
C2_EveryMatchingPart ==
    \A x \in 1..Len(calls) :
        calls[x].found =>
            LET key    == ClaimKey(calls[x].src)
                known  == Known
                exact  == Writers(known, key)
                byName == {k \in 1..Len(known) : \E r \in Range(known[k]) :
                                                     Basename(r) = Basename(key)}
            IN  \A k \in (IF exact # {} THEN exact ELSE byName) :
                    /\ RewrittenSrc(calls[x].result) = Str("cid:") \o new_cids[k]
                    /\ HeaderCarries(k, new_cids[k])

\* the identifier the lookup owes a reference, <<>> when no part is known by it or by
\* its file name
ExpectedCid(known, key) ==
    LET keys  == AllKeys(known)
        exact == Writers(known, key)
        same  == {i \in 1..Len(keys) : Basename(keys[i]) = Basename(key)}
    IN  IF exact # {} THEN new_cids[Max(exact)]
        ELSE IF same # {} THEN new_cids[Max(Writers(known, keys[Min(same)]))]
        ELSE <<>>

(* C2 amended: a tag whose src (a leading "cid:" apart) is the location or
   the prior identifier of an image part is rewritten to "cid:" and the new
   identifier of the last such part in part order; failing any such part, the
   first reference entered in the map with the same file name is taken in its
   place.  That identifier is the one written in that part's Content-ID
   header. *)
C2_LastMatchingPart ==
    \A x \in 1..Len(calls) :
        calls[x].found =>
            LET cid == ExpectedCid(Known, ClaimKey(calls[x].src))
            IN  IF cid = <<>>
                THEN calls[x].result = Closed(calls[x].tag)
                ELSE /\ RewrittenSrc(calls[x].result) = Str("cid:") \o cid
                     /\ \E k \in 1..Len(content_parts) : new_cids[k] = cid /\ HeaderCarries(k, cid)

\* C2's case: a tag whose reference two image parts with different new identifiers are
\* known by has been rewritten
C2_Witness ==
    \E x \in 1..Len(calls) :
        /\ calls[x].found
        /\ calls[x].cid # <<>>
        /\ \E j, k \in Writers(Known, ClaimKey(calls[x].src)) : new_cids[j] # new_cids[k]

(* C3: every image part with a Content-Location header holds, once
   rewritten, exactly one Content-ID header, whose value is the sanitized
   file name, ".", 8 hexadecimal characters and "@mhtml.fixer", whether the
   part came with no Content-ID header, with one, with several, or with one
   not in angle brackets. *)
C3_ExactlyOneIdentifier ==
    \A k \in 1..Len(modified_content_parts) :
        Located(k) =>
            /\ Cardinality(IdHeaderLines(modified_content_parts[k])) = 1
            /\ HeaderCarries(k, new_cids[k])
            /\ \E hex8 \in HexPool :
                  new_cids[k] = sanitized_filename(Basename(LocationOf(k))) \o <<".">>
                                    \o hex8 \o Str("@mhtml.fixer")

(* C4: the exit status is not zero after a wrong argument count, a missing
   input file, an unreadable input, a missing boundary or a missing HTML
   part, and zero on success, unresolved references or not. *)
C4_ExitStatus ==
    /\ (EndedWith("usage") \/ \E m \in FatalMessages : EndedWith(m)) => exit_status # 0
    /\ EndedWith("done") => exit_status = 0

\* the names an output file can take; no run starts with a file under one of them
OutputPaths == {output_name(p) : p \in InputPaths}

(* C5: the output file is opened and written only once the split, the image
   pass and the markup pass are over: a run that ends on a missing or
   unreadable input, a missing boundary or a missing HTML part writes
   nothing, and no run writes the input file. *)
C5_WriteOnlyAtTheEnd ==
    /\ \A p \in OutputPaths :
          fs[p].exists =>
              /\ p = output_file
              /\ MarkupDone
              /\ Len(modified_content_parts) = Len(content_parts)
              /\ EndedWith("done") \/ EndedWith("error: write")
    /\ pc \notin {"main", "exists", "read"} /\ input_file # <<>> /\ fs[input_file].readable
          => fs[input_file].data = content

\* C5's case: a run over an archive with parts has ended for want of an HTML part
C5_Witness == EndedWith("error: no html part") /\ Len(content_parts) > 0

(* C6: the output file, split on its boundary as the input was, has as many
   parts as the input, in the same order, each the part of the same
   position as the run left it. *)
C6_RoundTrip ==
    EndedWith("done") =>
        LET data == fs[output_file].data
            out  == middle(Split(data, delimiter(data)))
        IN  /\ Len(out) = Len(content_parts)
            /\ \A k \in 1..Len(out) :
                  out[k] \in {modified_content_parts[k], CRLF \o modified_content_parts[k]}

(* C7: of several HTML parts the markup pass rewrites the first in part
   order and no other; the later ones are written as they came. *)
C7_FirstHtmlPart ==
    MarkupDone =>
        LET htmls == {k \in 1..Len(content_parts) : is_html(content_parts[k])}
        IN  /\ html_part_info[1].index = Min(htmls)
            /\ \A k \in htmls \ {Min(htmls)} : modified_content_parts[k] = content_parts[k]

(* C8 as claimed: when a new identifier is found only the value of the src
   attribute is replaced; every other byte of the tag stays (the ending
   apart) and the value keeps the quotes, or the lack of quotes, it had. *)
C8_OnlyTheValue ==
    \A x \in 1..Len(calls) :
        calls[x].cid # <<>> =>
            LET tag == calls[x].tag
                m   == src_match(tag)
            IN  calls[x].result =
                    Closed(SubSeq(tag, 1, m.gstart - 1) \o Str("cid:") \o calls[x].cid
                               \o SubSeq(tag, m.gend + 1, Len(tag)))

(* C8 amended: when a new identifier is found, the first text of the tag
   that reads as src = value (in any case, at the end of a longer attribute
   name such as data-src too), with the white space around "=" and the
   quotes of the value, is replaced by src="cid:<new identifier>", in lower
   case and in double quotes whatever the input had; every byte before and
   after that text stays, the ending apart. *)
C8_WholeAttribute ==
    \A x \in 1..Len(calls) :
        calls[x].cid # <<>> =>
            LET tag == calls[x].tag
                m   == src_match(tag)
            IN  calls[x].result =
                    Closed(SubSeq(tag, 1, m.start - 1)
                               \o Str("src=\"cid:") \o calls[x].cid \o Str("\"")
                               \o SubSeq(tag, m.end + 1, Len(tag)))

\* C8's case: a reference in single quotes has been resolved
C8_Witness ==
    \E x \in 1..Len(calls) :
        calls[x].cid # <<>> /\ src_match(calls[x].tag).quote = "'"

(* C9 as claimed: once the image pass is over, and all through the markup
   pass, every image part with a location has an entry under it, and the
   prior identifier of such a part maps to the same new identifier as the
   part's location; an image part with no location adds no entry and is
   passed through as it came. *)
C9_PriorMapsAsLocation ==
    (pc \in {"pass2", "write"} \/ MarkupDone) =>
        /\ \A k \in 1..Len(content_parts) :
              Located(k) =>
                  /\ MapHas(ref_map, LocationOf(k))
                  /\ HasPrior(k) => MapGet(ref_map, PriorOf(k)) = MapGet(ref_map, LocationOf(k))
        /\ \A k \in 1..Len(content_parts) :
              (is_image(content_parts[k]) /\ ~Located(k)) =>
                  modified_content_parts[k] = content_parts[k]
        /\ {ref_map[x].key : x \in 1..Len(ref_map)} = Range(AllKeys(Known))

(* C9 amended: at every point of the image pass and after it, the map holds
   one entry for each location and each prior identifier (the first
   Content-ID in angle brackets) of the image parts with a location
   processed so far, and nothing else; each entry maps to the new identifier
   of the last such part that carries the key, so a part's location and its
   prior identifier map to the part's own new identifier until a later part
   with the same location or prior identifier takes the entry over.  An image
   part with no location adds no entry and is passed through as it came. *)
C9_LastWriterWins ==
    LET known == Known
    IN  /\ {ref_map[x].key : x \in 1..Len(ref_map)} = Range(AllKeys(known))
        /\ \A x, y \in 1..Len(ref_map) : ref_map[x].key = ref_map[y].key => x = y
        /\ \A x \in 1..Len(ref_map) :
              ref_map[x].val = new_cids[Max(Writers(known, ref_map[x].key))]
        /\ \A k \in 1..Len(known) :
              (is_image(content_parts[k]) /\ ~Located(k)) =>
                  /\ new_cids[k] = <<>>
                  /\ modified_content_parts[k] = content_parts[k]

\* C9's case: the image pass is over, and a part shares its prior identifier with a
\* later part of another location that was given another identifier
C9_Witness ==
    /\ pc = "pass2"
    /\ \E j, k \in 1..Len(content_parts) :
          /\ j < k /\ Located(j) /\ Located(k) /\ HasPrior(j) /\ HasPrior(k)
          /\ PriorOf(j) = PriorOf(k)
          /\ LocationOf(j) # LocationOf(k)
          /\ new_cids[j] # new_cids[k]

LegalIdChars == Range(Str("abcdefghijklmnopqrstuvwxyzABCDEFGHIJKLMNOPQRSTUVWXYZ0123456789._-"))

\* the base of an identifier: what precedes ".", the 8 hexadecimal characters and the suffix
BaseOf(cid) == SubSeq(cid, 1, Len(cid) - 21)

(* C10: every identifier generated for an image part, whatever its location
   (an empty file name, a leading "-", characters outside ASCII), has a base
   of letters, digits, ".", "_" and "-" only and does not begin with a
   hyphen; the file name "-bad?name.png" gives the base
   "image-bad_name.png". *)
C10_LegalIdentifier ==
    \A k \in 1..Len(new_cids) :
        new_cids[k] # <<>> =>
            /\ Range(BaseOf(new_cids[k])) \subseteq LegalIdChars
            /\ new_cids[k][1] # "-"
            /\ Basename(LocationOf(k)) = Str("-bad?name.png")
                  => BaseOf(new_cids[k]) = Str("image-bad_name.png")

\* C10's case: an identifier has been generated for the file name "-bad?name.png"
C10_Witness ==
    \E k \in 1..Len(new_cids) :
        new_cids[k] # <<>> /\ Basename(LocationOf(k)) = Str("-bad?name.png")

====
